---- MODULE Spec2Model ----
(***************************************************************************)
(* Users microservice (storage rental system).                             *)
(*                                                                         *)
(* The application mounted by app/main.py is the router of                 *)
(* app/routers/users.py: an in-memory dict MOCK_USERS, an in-memory dict   *)
(* task_storage, and one handler per endpoint.  Every handler is an        *)
(* `async def` without an await, so a handler runs to completion on the    *)
(* event loop: one handler is one atomic action.  The only other execution *)
(* context is the background task send_verification_email_task.            *)
(*                                                                         *)
(* Abstractions (all named):                                               *)
(*   - a datetime is a tick number; datetime.utcnow() is the wall clock,   *)
(*     which never runs backwards here but may return the same tick twice  *)
(*     (clock resolution);                                                 *)
(*   - the profile fields are represented by `email' (required, the login  *)
(*     identifier) and `city' (optional); the handlers treat every field   *)
(*     of the body with the same generic loop;                             *)
(*   - md5 is a digest without collisions on the bounded domain: a digest  *)
(*     is identified by the string it was computed from;                   *)
(*   - a job id (uuid4) is the next unused number;                         *)
(*   - a JWT is its payload together with the key that signed it, a        *)
(*     password hash is identified by the password it was made from.       *)
(*                                                                         *)
(* Beside the router stand the SQLAlchemy layer (app/crud/users.py over    *)
(* the `users' table) and the credential code (app/routers/auth.py,        *)
(* app/dependencies.py): `db' is the table, `tokens' the credentials       *)
(* minted by Google logins.  A handler declared with a response_model     *)
(* answers through that model: a record the model rejects is answered 500, *)
(* and only the model's fields reach the body.  A credential is presented  *)
(* as an Authorization header, which the security scheme of the verifier   *)
(* (HTTPBearer or OAuth2PasswordBearer) reads before the verifier runs.    *)
(***************************************************************************)
EXTENDS Integers, Sequences, FiniteSets, TLC

\* ------------------------------------------------------------------ bounds
MaxId == 2          \* identifiers handed out by create_user stay <= MaxId
MaxClock == 3       \* utcnow() returns ticks <= MaxClock
MaxTasks == 2       \* verify-email jobs submitted
MaxTokens == 2      \* credentials minted before they are presented
MaxPolledTasks == 1 \* verify-email jobs submitted between the reads of SpecStable

\* ------------------------------------------------------------ plain values
None == "<None>"

JohnTime == 0       \* datetime(2024, 1, 15, 10, 0, 0)
JaneTime == 1       \* datetime(2024, 1, 16, 10, 0, 0)

Emails == {"john.smith@email.com", "jane.doe@email.com"}
UserIds == 1..MaxId

\* A datetime object and the str that isoformat() makes of it are different
\* values of different types.
Datetime(t) == [type |-> "datetime", v |-> t]

isoformat(d) == [type |-> "str", v |-> d.v]

\* --------------------------------------------------------------- MOCK_USERS
\* A Python dict keeps insertion order: MOCK_USERS is the sequence of its
\* (key, value) items.
Keys(d) == {d[i].key : i \in 1..Len(d)}

IndexOf(d, k) == CHOOSE i \in 1..Len(d) : d[i].key = k

Lookup(d, k) == d[IndexOf(d, k)].val

Values(d) == [i \in 1..Len(d) |-> d[i].val]

\* dict.setdefault: an item already there is kept (the first writer wins).
SetDefault(d, k, v) ==
    IF k \in Keys(d) THEN d ELSE Append(d, [key |-> k, val |-> v])

SetItem(d, k, v) ==
    IF k \in Keys(d)
    THEN [d EXCEPT ![IndexOf(d, k)] = [key |-> k, val |-> v]]
    ELSE Append(d, [key |-> k, val |-> v])

DelItem(d, k) ==
    LET i == IndexOf(d, k)
    IN  [j \in 1..(Len(d) - 1) |-> IF j < i THEN d[j] ELSE d[j + 1]]

MaxKey(d) == CHOOSE k \in Keys(d) : \A j \in Keys(d) : j <= k

UserRow(id, email, city, created, updated) ==
    [user_id |-> id, email |-> email, city |-> city, status |-> "active",
     created_at |-> Datetime(created), updated_at |-> Datetime(updated)]

InitialMockUsers ==
    << [key |-> 1, val |-> UserRow(1, "john.smith@email.com", "Seattle", JohnTime, JohnTime)],
       [key |-> 2, val |-> UserRow(2, "jane.doe@email.com", "Portland", JaneTime, JaneTime)] >>

VARIABLES
    MOCK_USERS,     \* the dict of routers/users.py
    task_storage,   \* the dict of verify-email jobs
    clock,          \* the last tick datetime.utcnow() returned
    background_tasks, \* the jobs handed to BackgroundTasks whose worker has not run yet
    resp,           \* the response to the last request
    clients,        \* two API clients: the fingerprint each holds from its last GET
    seen,           \* per identifier: the ETag of the GETs since the last accepted write
    db,             \* the `users' table of the SQLAlchemy layer and its AUTO_INCREMENT counter
    tokens,         \* the bearer credentials minted so far (held by the clients)
    log             \* what the clients did and saw: blind PUTs, submitted jobs, polls

vars == <<MOCK_USERS, task_storage, background_tasks, clock, resp, clients, seen,
          db, tokens, log>>

\* ----------------------------------------------------------------- helpers
\* add_hateoas_links: sets user_dict["_links"] IN PLACE and returns the dict.
HateoasLinks(user_id) ==
    [self         |-> [href |-> <<"users", user_id>>, method |-> "GET"],
     update       |-> [href |-> <<"users", user_id>>, method |-> "PUT"],
     delete       |-> [href |-> <<"users", user_id>>, method |-> "DELETE"],
     rentals      |-> [href |-> <<"users", user_id, "rentals">>, method |-> "GET"],
     verify_email |-> [href |-> <<"users", user_id, "verify-email">>, method |-> "POST"],
     collection   |-> [href |-> <<"users">>, method |-> "GET"]]

add_hateoas_links(user_dict) ==
    [f \in DOMAIN user_dict \cup {"_links"} |->
        IF f = "_links" THEN HateoasLinks(user_dict.user_id) ELSE user_dict[f]]

\* Header values and fingerprints are strings; a string is modelled by what
\* distinguishes it: an md5 digest by the text digested.
NoHeader == [kind |-> "absent", user_id |-> 0, iso |-> 0]
EmptyString == [kind |-> "empty", user_id |-> 0, iso |-> 0]
OtherString == [kind |-> "other", user_id |-> 0, iso |-> 0]

md5(user_id, iso_text) == [kind |-> "md5", user_id |-> user_id, iso |-> iso_text.v]

generate_etag(user_dict) ==
    LET updated_at == IF user_dict.updated_at.type = "datetime"
                      THEN isoformat(user_dict.updated_at)
                      ELSE user_dict.updated_at
    IN  md5(user_dict.user_id, updated_at)

\* The JSON-ready copy a handler returns: links added, datetimes as strings.
Rendered(user) ==
    LET linked == add_hateoas_links(user)
    IN  [linked EXCEPT !.created_at = isoformat(user.created_at),
                       !.updated_at = isoformat(user.updated_at)]

\* response_model=User (List[User] for the list): FastAPI validates what the
\* handler returned against models.User and sends the declared fields of the
\* validated object.  `_links' is no field of User (a name with a leading
\* underscore is a private attribute), so it is not sent.
UserFields ==
    {"user_id", "first_name", "last_name", "email", "city", "status", "created_at",
     "updated_at"}

\* User.email is an EmailStr, required and not Optional; city is Optional.
UserValid(user_dict) == user_dict.email # None

\* The JSON of the validated object: the declared fields, datetimes as strings.
User(user_dict) ==
    [f \in DOMAIN user_dict \cap UserFields |->
        IF f \in {"created_at", "updated_at"} /\ user_dict[f].type = "datetime"
        THEN isoformat(user_dict[f])
        ELSE user_dict[f]]

Response(op, uid, status, etag, body) ==
    [op |-> op, uid |-> uid, status |-> status, etag |-> etag, body |-> body]

\* What a client may send in If-None-Match / If-Match for user_id: nothing, an
\* empty string, some other string, the record's current fingerprint, or the
\* fingerprint the record had at an earlier tick.
ReadHeaderValues(users, user_id) ==
    {NoHeader, EmptyString, OtherString, md5(user_id, isoformat(Datetime(JohnTime)))}
        \cup {generate_etag(Lookup(users, k)) : k \in {user_id} \cap Keys(users)}

WriteHeaderValues(users, user_id) ==
    {NoHeader, OtherString}
        \cup {generate_etag(Lookup(users, k)) : k \in {user_id} \cap Keys(users)}

IdleClient == [pc |-> "idle", uid |-> 0, etag |-> NoHeader, raced |-> FALSE, status |-> 0]

Clients == {"w1", "w2"}

Init ==
    /\ MOCK_USERS = InitialMockUsers
    /\ task_storage = << >>
    /\ background_tasks = {}
    /\ clock = JaneTime + 1
    /\ resp = Response("none", 0, 0, NoHeader, << >>)
    /\ clients = [w \in Clients |-> IdleClient]
    /\ seen = [id \in UserIds |-> NoHeader]
    /\ db = [users |-> << >>, autoincrement |-> 1]
    /\ tokens = {}
    /\ log = [puts |-> [id \in UserIds |-> << >>], submitted |-> {}, completed_seen |-> {},
               presented |-> << >>, upstream |-> << >>, issued |-> {},
               deleted |-> {}, sent |-> << >>]

\* datetime.utcnow(): the next reading is the last one or a later one.
Utcnow == {t \in clock..(clock + 1) : t <= MaxClock}

\* ------------------------------------------------------------ GET /{user_id}
\* A validator that answers 304 to any If-None-Match at all.
NotModifiedAnyHeader(if_none_match, etag) == if_none_match # NoHeader

\* `if if_none_match and if_none_match == etag'
NotModified(if_none_match, etag) ==
    /\ if_none_match # NoHeader
    /\ if_none_match # EmptyString
    /\ if_none_match = etag

\* MOCK_USERS after a 200: the handler works on MOCK_USERS[user_id].copy(), so
\* the links and the string timestamps go on the copy and the stored dict stays
\* as it was.
get_user_store(users, user_id) == users

get_user(user_id, if_none_match) ==
    /\ UNCHANGED <<task_storage, background_tasks, clock>>
    /\ IF user_id \notin Keys(MOCK_USERS)
       THEN /\ resp' = Response("get_user", user_id, 404, NoHeader, << >>)
            /\ UNCHANGED MOCK_USERS
       ELSE LET user == Lookup(MOCK_USERS, user_id)
                etag == generate_etag(user)
            IN  IF NotModified(if_none_match, etag)
                THEN /\ resp' = Response("get_user", user_id, 304, etag, << >>)
                     /\ UNCHANGED MOCK_USERS
                ELSE /\ resp' = Response("get_user", user_id, 200, etag, << Rendered(user) >>)
                     /\ MOCK_USERS' = get_user_store(MOCK_USERS, user_id)

\* ------------------------------------------------------------------- GET /
\* all_users[skip:skip + limit]
Slice(s, skip, limit) ==
    LET lo == skip + 1
        hi == IF skip + limit < Len(s) THEN skip + limit ELSE Len(s)
    IN  IF lo > hi THEN << >> ELSE SubSeq(s, lo, hi)

get_users(skip, limit) ==
    LET all_users == Values(MOCK_USERS)
        paginated_users == Slice(all_users, skip, limit)
        users_with_links == [i \in 1..Len(paginated_users) |->
                                add_hateoas_links(paginated_users[i])]
    IN  /\ resp' = IF \A i \in 1..Len(users_with_links) : UserValid(users_with_links[i])
                   THEN Response("get_users", 0, 200, NoHeader,
                                 [i \in 1..Len(users_with_links) |->
                                     User(users_with_links[i])])
                   ELSE Response("get_users", 0, 500, NoHeader, << >>)
        /\ UNCHANGED <<MOCK_USERS, task_storage, background_tasks, clock>>

\* ------------------------------------------------------------------ POST /
\* UserCreate: email is required, city is optional (None when left out).
NewId(users) == IF Len(users) > 0 THEN MaxKey(users) + 1 ELSE 1

create_user_as(op, email, city) ==
    LET new_id == NewId(MOCK_USERS)
    IN  /\ new_id <= MaxId
        /\ \E created \in Utcnow :
             \E updated \in {t \in created..(created + 1) : t <= MaxClock} :
               LET new_user == UserRow(new_id, email, city, created, updated)
               IN  /\ MOCK_USERS' = SetItem(MOCK_USERS, new_id, new_user)
                   /\ clock' = updated
                   /\ resp' = IF UserValid(Rendered(new_user))
                              THEN Response(op, new_id, 201, NoHeader,
                                            << User(Rendered(new_user)) >>)
                              ELSE Response(op, new_id, 500, NoHeader, << >>)
        /\ UNCHANGED <<task_storage, background_tasks>>

create_user(email, city) == create_user_as("create_user", email, city)

\* POST /register: `return await create_user(user, request)'
register_user(email, city) == create_user_as("register_user", email, city)

\* ------------------------------------------------------------ PUT /{user_id}
\* UserUpdate: every field Optional, email included.  user.dict(exclude_unset=
\* True) holds exactly the fields the body supplied, an explicit null as None.
UpdateFields == {"email", "city"}

FieldValues(f) == IF f = "email" THEN Emails \cup {None} ELSE {"Seattle", None}

UpdateBodies ==
    {b \in UNION {[S -> Emails \cup {"Seattle", None}] : S \in SUBSET UpdateFields} :
        \A f \in DOMAIN b : b[f] \in FieldValues(f)}

\* An update that drops the nulls of the body (exclude_none): a null is then
\* the same as a field left out.
ApplyUpdateExcludeNone(existing_user, update_data) ==
    [f \in DOMAIN existing_user \cup DOMAIN update_data |->
        IF f \in DOMAIN update_data /\ update_data[f] # None
        THEN update_data[f]
        ELSE existing_user[f]]

\* `for field, value in update_data.items(): existing_user[field] = value'
ApplyUpdate(existing_user, update_data) ==
    [f \in DOMAIN existing_user \cup DOMAIN update_data |->
        IF f \in DOMAIN update_data THEN update_data[f] ELSE existing_user[f]]

\* The handler declares neither an Authorization dependency nor an If-Match
\* header: `actor' (the caller's authenticated identifier) and `if_match'
\* travel with the request and are never read.
update_user(actor, user_id, user, if_match) ==
    /\ UNCHANGED <<task_storage, background_tasks>>
    /\ IF user_id \notin Keys(MOCK_USERS)
       THEN /\ resp' = Response("update_user", user_id, 404, NoHeader, << >>)
            /\ UNCHANGED <<MOCK_USERS, clock>>
       ELSE \E now \in Utcnow :
              LET existing_user == [ApplyUpdate(Lookup(MOCK_USERS, user_id), user)
                                       EXCEPT !.updated_at = Datetime(now)]
              IN  /\ MOCK_USERS' = SetItem(MOCK_USERS, user_id, existing_user)
                  /\ clock' = now
                  /\ resp' = IF UserValid(Rendered(existing_user))
                             THEN Response("update_user", user_id, 200, NoHeader,
                                           << User(Rendered(existing_user)) >>)
                             ELSE Response("update_user", user_id, 500, NoHeader, << >>)

\* --------------------------------------------------------- DELETE /{user_id}
delete_user(actor, user_id, if_match) ==
    /\ UNCHANGED <<task_storage, background_tasks, clock>>
    /\ IF user_id \notin Keys(MOCK_USERS)
       THEN /\ resp' = Response("delete_user", user_id, 404, NoHeader, << >>)
            /\ UNCHANGED MOCK_USERS
       ELSE /\ MOCK_USERS' = DelItem(MOCK_USERS, user_id)
            /\ resp' = Response("delete_user", user_id, 204, NoHeader, << >>)

\* --------------------------------------------------------------- POST /login
\* The first user, in dict order, whose email is the one given; the password
\* is not looked at.
Passwords == {"secret123", "wrong"}

login_user(email, password) ==
    LET hits == {i \in 1..Len(MOCK_USERS) : MOCK_USERS[i].val.email = email}
    IN  /\ UNCHANGED <<MOCK_USERS, task_storage, background_tasks, clock>>
        /\ IF hits = {}
           THEN resp' = Response("login_user", 0, 401, NoHeader, << >>)
           ELSE LET first == CHOOSE i \in hits : \A j \in hits : i <= j
                    user == MOCK_USERS[first].val
                IN  resp' = Response("login_user", user.user_id, 200, NoHeader,
                                     << [user_id |-> user.user_id, email |-> user.email,
                                         token |-> "mock_jwt_token_12345",
                                         token_type |-> "bearer",
                                         message |-> "Login successful"] >>)

\* ------------------------------------------------ POST /{user_id}/verify-email
TaskIds == 1..MaxTasks

\* str(uuid.uuid4()): an id no job has.  Jobs are never removed, so the next
\* unused number stands for it.
NewTaskIds(tasks) == {t \in TaskIds : t = Len(tasks) + 1}

\* Python's None where a timestamp string may stand.
NoTime == [type |-> "NoneType", v |-> 0]

\* A BackgroundTasks that forgets the task it is given.
add_task_dropped(tasks, job) == tasks

\* background_tasks.add_task(send_verification_email_task, user_id, task_id):
\* the worker runs after the response has been sent.
add_task(tasks, job) == tasks \cup {job}

verify_email_async(actor, user_id) ==
    /\ UNCHANGED MOCK_USERS
    /\ IF user_id \notin Keys(MOCK_USERS)
       THEN /\ resp' = Response("verify_email_async", user_id, 404, NoHeader, << >>)
            /\ UNCHANGED <<task_storage, background_tasks, clock>>
       ELSE \E task_id \in NewTaskIds(task_storage) :
              \E now \in Utcnow :
                /\ task_storage' = SetItem(task_storage, task_id,
                       [task_id |-> task_id, status |-> "pending", user_id |-> user_id,
                        message |-> "Email verification in progress",
                        started_at |-> isoformat(Datetime(now)),
                        completed_at |-> NoTime])
                /\ background_tasks' = add_task(background_tasks,
                                                [user_id |-> user_id, task_id |-> task_id])
                /\ clock' = now
                /\ resp' = Response("verify_email_async", user_id, 202, NoHeader,
                                    << [message |-> "Email verification started",
                                        task_id |-> task_id, status |-> "pending"] >>)

\* A worker that stamps started_at anew.
CompletedTaskRestamped(job, started_at, now) ==
    [task_id |-> job.task_id, status |-> "completed", user_id |-> job.user_id,
     message |-> "Verification email sent successfully",
     started_at |-> isoformat(Datetime(now)),
     completed_at |-> isoformat(Datetime(now))]

\* A worker that leaves completed_at unset.
CompletedTaskUnstamped(job, started_at, now) ==
    [task_id |-> job.task_id, status |-> "completed", user_id |-> job.user_id,
     message |-> "Verification email sent successfully",
     started_at |-> started_at,
     completed_at |-> NoTime]

\* The dict the worker stores over the job's entry.
CompletedTask(job, started_at, now) ==
    [task_id |-> job.task_id, status |-> "completed", user_id |-> job.user_id,
     message |-> "Verification email sent successfully",
     started_at |-> started_at,
     completed_at |-> isoformat(Datetime(now))]

\* The background worker: sleeps, then replaces the job's entry.
send_verification_email_task(job) ==
    /\ job \in background_tasks
    /\ \E now \in Utcnow :
         /\ task_storage' = SetItem(task_storage, job.task_id,
                CompletedTask(job, Lookup(task_storage, job.task_id).started_at, now))
         /\ clock' = now
    /\ background_tasks' = background_tasks \ {job}
    /\ UNCHANGED <<MOCK_USERS, resp>>

\* -------------------------------------------------------- GET /tasks/{task_id}
TaskLinks(task) ==
    IF task.user_id # 0      \* `if task.get("user_id")'
    THEN [self |-> <<"tasks", task.task_id>>, user |-> <<"users", task.user_id>>]
    ELSE [self |-> <<"tasks", task.task_id>>]

WithLinks(task) ==
    [f \in DOMAIN task \cup {"_links"} |-> IF f = "_links" THEN TaskLinks(task) ELSE task[f]]

\* The handler without `.copy()': the links land in the stored job.
\* response_model=TaskStatus: the declared fields are sent, `_links' is none.
TaskStatus(task) ==
    [f \in DOMAIN task \cap {"task_id", "status", "user_id", "message", "started_at",
                             "completed_at"} |-> task[f]]

get_task_status_store_aliased(tasks, task_id) ==
    SetItem(tasks, task_id, WithLinks(Lookup(tasks, task_id)))

\* task_storage after a poll: the links go on task_storage[task_id].copy().
get_task_status_store(tasks, task_id) == tasks

get_task_status(task_id) ==
    /\ UNCHANGED <<MOCK_USERS, background_tasks, clock>>
    /\ IF task_id \notin Keys(task_storage)
       THEN /\ resp' = Response("get_task_status", task_id, 404, NoHeader, << >>)
            /\ UNCHANGED task_storage
       ELSE LET task == Lookup(task_storage, task_id)
            IN  /\ resp' = Response("get_task_status", task_id, 200, NoHeader,
                                    << TaskStatus(WithLinks(task)) >>)
                /\ task_storage' = get_task_status_store(task_storage, task_id)

\* ------------------------------------------------------ GET /{user_id}/rentals
get_user_rentals(actor, user_id, active_only) ==
    /\ UNCHANGED <<MOCK_USERS, task_storage, background_tasks, clock>>
    /\ resp' = IF user_id \notin Keys(MOCK_USERS)
               THEN Response("get_user_rentals", user_id, 404, NoHeader, << >>)
               ELSE Response("get_user_rentals", user_id, 200, NoHeader, << >>)

RentalIds == {7}

get_user_rental_details(actor, user_id, rental_id) ==
    /\ UNCHANGED <<MOCK_USERS, task_storage, background_tasks, clock>>
    /\ resp' = IF user_id \notin Keys(MOCK_USERS)
               THEN Response("get_user_rental_details", user_id, 404, NoHeader, << >>)
               ELSE Response("get_user_rental_details", user_id, 200, NoHeader,
                             << [message |-> "NOT IMPLEMENTED", user_id |-> user_id,
                                 rental_id |-> rental_id] >>)

\* ------------------------------------------------------ the `users' table
\* The credential hasher: a one-way hash of the password, and its check.
NoPassword == [hash_of |-> None]

get_password_hash(password) == [hash_of |-> password]

verify_password(plain_password, hashed_password) ==
    hashed_password = get_password_hash(plain_password)

\* A row of the table: status defaults to active, created_at and updated_at
\* to the time of the INSERT.
UserDB(user_id, email, first_name, last_name, hashed_password, now) ==
    [user_id |-> user_id, first_name |-> first_name, last_name |-> last_name,
     email |-> email, hashed_password |-> hashed_password, status |-> "active",
     created_at |-> Datetime(now), updated_at |-> Datetime(now)]

\* `.first()': the first row that passes the filter, or nothing.
First(rows) == IF Len(rows) = 0 THEN << >> ELSE << rows[1] >>

ByEmail(email, row) == row.email = email

ById(user_id, row) == row.user_id = user_id

get_user_by_email(email) == First(SelectSeq(db.users, LAMBDA row : ByEmail(email, row)))

crud_get_user(user_id) == First(SelectSeq(db.users, LAMBDA row : ById(user_id, row)))

\* db.add(user); db.commit(); db.refresh(user): the row gets the next
\* AUTO_INCREMENT identifier.
db_add(row) == [users |-> Append(db.users, row), autoincrement |-> db.autoincrement + 1]

\* db.delete(db_user); db.commit()
db_delete(user_id) ==
    [db EXCEPT !.users = SelectSeq(db.users, LAMBDA row : ~ById(user_id, row))]

\* crud.create_user: the password is stored hashed; the unique index on email
\* refuses a second row with the same email (IntegrityError).
crud_create_user(email, password) ==
    /\ db.autoincrement <= MaxId
    /\ UNCHANGED <<MOCK_USERS, task_storage, background_tasks, tokens>>
    /\ IF get_user_by_email(email) # << >>
       THEN /\ resp' = Response("crud_create_user", 0, 500, NoHeader, << >>)
            /\ UNCHANGED <<db, clock>>
       ELSE \E now \in Utcnow :
              LET db_user == UserDB(db.autoincrement, email, "New", "User",
                                    get_password_hash(password), now)
              IN  /\ db' = db_add(db_user)
                  /\ clock' = now
                  /\ resp' = Response("crud_create_user", db_user.user_id, 200, NoHeader,
                                      << db_user >>)

\* crud.delete_user: True if deleted, False if not found.
crud_delete_user(user_id) ==
    /\ UNCHANGED <<MOCK_USERS, task_storage, background_tasks, tokens, clock>>
    /\ IF crud_get_user(user_id) = << >>
       THEN /\ resp' = Response("crud_delete_user", user_id, 404, NoHeader, << >>)
            /\ UNCHANGED db
       ELSE /\ db' = db_delete(user_id)
            /\ resp' = Response("crud_delete_user", user_id, 200, NoHeader, << >>)

\* UPDATE of one row: the NOT NULL and the unique constraint on email refuse it
\* (IntegrityError at commit).
IntegrityError(user_id, row) ==
    \/ row.email = None
    \/ \E i \in 1..Len(db.users) :
          db.users[i].user_id # user_id /\ db.users[i].email = row.email

\* crud_users.create_user: the row is built without a password and without a
\* status (the column default stands), and no lookup by email precedes the
\* INSERT; 500 stands for the IntegrityError of the unique email.
crud_users_create_user(email) ==
    /\ db.autoincrement <= MaxId
    /\ UNCHANGED <<MOCK_USERS, task_storage, background_tasks, tokens>>
    /\ IF \E i \in 1..Len(db.users) : db.users[i].email = email
       THEN /\ resp' = Response("crud_users_create_user", 0, 500, NoHeader, << >>)
            /\ UNCHANGED <<db, clock>>
       ELSE \E now \in Utcnow :
              LET new_user == UserDB(db.autoincrement, email, "New", "User", NoPassword, now)
              IN  /\ db' = db_add(new_user)
                  /\ clock' = now
                  /\ resp' = Response("crud_users_create_user", new_user.user_id, 200,
                                      NoHeader, << new_user >>)

\* commit of a changed row: onupdate=func.now() stamps updated_at; a row whose
\* attributes were set to the values they had is not written.
db_update(user_id, row, now) ==
    [db EXCEPT !.users =
        [i \in 1..Len(db.users) |->
            IF db.users[i].user_id # user_id \/ row = db.users[i]
            THEN db.users[i]
            ELSE [row EXCEPT !.updated_at = Datetime(now)]]]

\* crud.update_user: setattr for every item of user.dict(exclude_unset=True),
\* commit, refresh.  404 stands for `return None', 500 for the IntegrityError
\* that no caller catches.
crud_update_user(user_id, user) ==
    /\ UNCHANGED <<MOCK_USERS, task_storage, background_tasks, tokens>>
    /\ LET db_user == crud_get_user(user_id)
       IN  IF db_user = << >>
           THEN /\ resp' = Response("crud_update_user", user_id, 404, NoHeader, << >>)
                /\ UNCHANGED <<db, clock>>
           ELSE LET row == ApplyUpdate(db_user[1], user)
                IN  IF IntegrityError(user_id, row)
                    THEN /\ resp' = Response("crud_update_user", user_id, 500, NoHeader, << >>)
                         /\ UNCHANGED <<db, clock>>
                    ELSE \E now \in Utcnow :
                           /\ db' = db_update(user_id, row, now)
                           /\ clock' = now
                           /\ resp' = Response("crud_update_user", user_id, 200, NoHeader,
                                               SelectSeq(db_update(user_id, row, now).users,
                                                         LAMBDA r : ById(user_id, r)))

\* crud.update_user_status: db_user.status = status, commit, refresh.
update_user_status(user_id, status) ==
    /\ UNCHANGED <<MOCK_USERS, task_storage, background_tasks, tokens>>
    /\ LET db_user == crud_get_user(user_id)
       IN  IF db_user = << >>
           THEN /\ resp' = Response("update_user_status", user_id, 404, NoHeader, << >>)
                /\ UNCHANGED <<db, clock>>
           ELSE \E now \in Utcnow :
                  /\ db' = db_update(user_id, [db_user[1] EXCEPT !.status = status], now)
                  /\ clock' = now
                  /\ resp' = Response("update_user_status", user_id, 200, NoHeader,
                                      SelectSeq(db'.users, LAMBDA row : ById(user_id, row)))

\* crud.authenticate_user: the user, or None for an unknown email or a
\* password that does not verify.
authenticate_user(email, password) ==
    LET user == get_user_by_email(email)
    IN  /\ UNCHANGED <<MOCK_USERS, task_storage, background_tasks, tokens, clock, db>>
        /\ IF user = << >>
           THEN resp' = Response("authenticate_user", 0, 401, NoHeader, << >>)
           ELSE IF ~verify_password(password, user[1].hashed_password)
                THEN resp' = Response("authenticate_user", 0, 401, NoHeader, << >>)
                ELSE resp' = Response("authenticate_user", user[1].user_id, 200,
                                      NoHeader, user)

\* --------------------------------------------------------- bearer credentials
\* One tick of the clock is the lifetime of a credential.
JWT_EXPIRE_MINUTES == 1

JWT_SECRET == "CHANGE_ME_IN_PRODUCTION"

GOOGLE_CLIENT_ID == "257248974057-dot98i5phvsc84ckf3paksk1m6l01e1t.apps.googleusercontent.com"

\* str(user.user_id) and int(sub): a str is not the int it was made from.
str(n) == [type |-> "str", v |-> ToString(n)]

\* int(text) raises ValueError for a text that is no decimal numeral.
ValueError(text) == \A n \in 0..(MaxId + 1) : ToString(n) # text.v

int(text) == CHOOSE n \in 0..(MaxId + 1) : ToString(n) = text.v

NoSub == [type |-> "NoneType", v |-> ""]

get_user_id(user) == str(user.user_id)

\* jwt.encode: the payload and the key it was signed with.
jwt_encode(payload, key) == [payload |-> payload, key |-> key]

create_jwt_for_user(user, now) ==
    jwt_encode([sub |-> get_user_id(user), email |-> user.email,
                iat |-> now, exp |-> now + JWT_EXPIRE_MINUTES], JWT_SECRET)

\* jwt.decode raises PyJWTError for a signature made with another key and for
\* a credential whose exp is not after the time of the check.
jwt_decode_ok(token, key, now) == token.key = key /\ token.payload.exp > now

\* The Authorization header of a request: its scheme ("" when the header is
\* absent) and the credentials after the scheme (none, or one token).
NoAuthorization == [scheme |-> "", credentials |-> << >>]

Authorization(scheme, token) == [scheme |-> scheme, credentials |-> << token >>]

BearerWithoutToken == [scheme |-> "Bearer", credentials |-> << >>]

\* str.lower() on the schemes clients send.
lower(scheme) ==
    IF scheme = "Bearer" THEN "bearer" ELSE IF scheme = "Basic" THEN "basic" ELSE scheme

\* What jwt.decode sees in a text that has no header, payload and signature
\* segments: nothing any key has signed (DecodeError).
jwt_segments(text) ==
    jwt_encode([sub |-> NoSub, email |-> text, iat |-> 0, exp |-> 0], "<no signature>")

\* security = HTTPBearer(): 403 "Not authenticated" without header, scheme or
\* credentials, 403 "Invalid authentication credentials" for a scheme other
\* than bearer; otherwise the credentials go to the dependency.
security(authorization) ==
    IF authorization.scheme = "" \/ authorization.credentials = << >>
    THEN [status |-> 403, credentials |-> << >>]
    ELSE IF lower(authorization.scheme) # "bearer"
    THEN [status |-> 403, credentials |-> << >>]
    ELSE [status |-> 200, credentials |-> authorization.credentials]

\* oauth2_scheme = OAuth2PasswordBearer(...): 401 "Not authenticated" without
\* header or for a scheme other than bearer; otherwise the text after the
\* scheme, the empty text included, goes to the dependency.
oauth2_scheme(authorization) ==
    IF authorization.scheme = "" \/ lower(authorization.scheme) # "bearer"
    THEN [status |-> 401, credentials |-> << >>]
    ELSE IF authorization.credentials = << >>
    THEN [status |-> 200, credentials |-> << jwt_segments("") >>]
    ELSE [status |-> 200, credentials |-> authorization.credentials]

\* routers/auth.py get_current_user: the dependency of the protected endpoints.
\* 200 stands for `return user'.
get_current_user(authorization, now) ==
    /\ UNCHANGED <<MOCK_USERS, task_storage, background_tasks, tokens, db>>
    /\ clock' = now
    /\ LET credentials == security(authorization)
       IN  IF credentials.status # 200
           THEN resp' = Response("get_current_user", 0, credentials.status, NoHeader, << >>)
           ELSE LET token == credentials.credentials[1]
                IN  IF ~jwt_decode_ok(token, JWT_SECRET, now)
                    THEN resp' = Response("get_current_user", 0, 401, NoHeader, << >>)
                    ELSE IF token.payload.sub.type = "NoneType"
                    THEN resp' = Response("get_current_user", 0, 401, NoHeader, << >>)
                    ELSE IF ValueError(token.payload.sub)
                    THEN resp' = Response("get_current_user", 0, 500, NoHeader, << >>)
                    ELSE LET user == crud_get_user(int(token.payload.sub))
                         IN  IF user = << >>
                             THEN resp' = Response("get_current_user", 0, 401, NoHeader,
                                                   << >>)
                             ELSE resp' = Response("get_current_user", user[1].user_id,
                                                   200, NoHeader, user)

\* dependencies.py get_current_user: the subject is the user's email.
SECRET_KEY == "your-secret-key-change-this-in-production"

\* security.decode_access_token: the payload, or None for a credential that is
\* not validly signed or has expired.
decode_access_token_ok(token, now) == token.key = SECRET_KEY /\ token.payload.exp > now

\* What dependencies.py get_current_user returns or raises: the status and
\* the user.
current_user(authorization, now) ==
    LET credentials == oauth2_scheme(authorization)
    IN  IF credentials.status # 200
        THEN [status |-> credentials.status, user |-> << >>]
        ELSE LET token == credentials.credentials[1]
             IN  IF ~decode_access_token_ok(token, now)
                 THEN [status |-> 401, user |-> << >>]
                 ELSE IF token.payload.sub.type = "NoneType"
                 THEN [status |-> 401, user |-> << >>]
                 ELSE LET user == get_user_by_email(token.payload.sub.v)
                      IN  IF user = << >>
                          THEN [status |-> 401, user |-> << >>]
                          ELSE [status |-> 200, user |-> user]

dependencies_get_current_user(authorization, now) ==
    /\ UNCHANGED <<MOCK_USERS, task_storage, background_tasks, tokens, db>>
    /\ clock' = now
    /\ LET current == current_user(authorization, now)
       IN  resp' = Response("dependencies_get_current_user",
                            IF current.status = 200 THEN current.user[1].user_id ELSE 0,
                            current.status, NoHeader, current.user)

\* dependencies.py get_current_active_user: 403 for a user who is not active.
get_current_active_user(authorization, now) ==
    /\ UNCHANGED <<MOCK_USERS, task_storage, background_tasks, tokens, db>>
    /\ clock' = now
    /\ LET current == current_user(authorization, now)
       IN  IF current.status # 200
           THEN resp' = Response("get_current_active_user", 0, current.status, NoHeader,
                                 << >>)
           ELSE IF current.user[1].status # "active"
           THEN resp' = Response("get_current_active_user", 0, 403, NoHeader, << >>)
           ELSE resp' = Response("get_current_active_user", current.user[1].user_id, 200,
                                 NoHeader, current.user)

\* ------------------------------------------------------------ POST /auth/google
\* id_token.verify_oauth2_token either raises or returns the claims of the
\* assertion: aud, email, given_name, family_name (each may be missing).
FailedAssertion == [ok |-> FALSE, aud |-> None, email |-> None,
                    given_name |-> None, family_name |-> None]

IdInfo(aud, email, given_name, family_name) ==
    [ok |-> TRUE, aud |-> aud, email |-> email,
     given_name |-> given_name, family_name |-> family_name]

\* `idinfo.get("given_name") or ""'
OrEmpty(value) == IF value = None THEN "" ELSE value

\* UserSchema.model_validate(user): first_name and last_name are str fields
\* with min_length=1.
model_validate_ok(user) == user.first_name # "" /\ user.last_name # ""

\* UserSchema.model_validate(user): the declared fields of models.User read
\* from the row; hashed_password is none of them.
model_validate(user) == [f \in DOMAIN user \cap UserFields |-> user[f]]

google_login(idinfo) ==
    /\ UNCHANGED <<MOCK_USERS, task_storage, background_tasks>>
    /\ IF ~idinfo.ok \/ idinfo.aud # GOOGLE_CLIENT_ID
       THEN /\ resp' = Response("google_login", 0, 401, NoHeader, << >>)
            /\ UNCHANGED <<db, tokens, clock>>
       ELSE IF idinfo.email = None \/ idinfo.email = ""
       THEN /\ resp' = Response("google_login", 0, 400, NoHeader, << >>)
            /\ UNCHANGED <<db, tokens, clock>>
       ELSE LET found == get_user_by_email(idinfo.email)
            IN  \E created \in (IF found = << >> THEN Utcnow ELSE {clock}) :
                \E now \in {t \in created..(created + 1) : t <= MaxClock} :
                  LET user == IF found = << >>
                              THEN UserDB(db.autoincrement, idinfo.email,
                                          OrEmpty(idinfo.given_name),
                                          OrEmpty(idinfo.family_name), NoPassword, created)
                              ELSE found[1]
                      access_token == create_jwt_for_user(user, now)
                  IN  /\ found = << >> => db.autoincrement <= MaxId
                      /\ db' = IF found = << >> THEN db_add(user) ELSE db
                      /\ clock' = now
                      /\ IF model_validate_ok(user)
                         THEN /\ tokens' = tokens \cup {access_token}
                              /\ resp' = Response("google_login", user.user_id, 200, NoHeader,
                                                  << [access_token |-> access_token,
                                                      token_type |-> "bearer",
                                                      user |-> model_validate(user)] >>)
                         ELSE /\ UNCHANGED tokens
                              /\ resp' = Response("google_login", user.user_id, 500,
                                                  NoHeader, << >>)

\* ------------------------------------------------------------ the requests
\* The inputs of the requests, drawn from small sets.
Actors == {1, 2}

Skips == 0..MaxId

Limits == 1..MaxId

CreateCities == {"Seattle", None}

GetUsers == \E skip \in Skips, limit \in Limits : get_users(skip, limit) /\ UNCHANGED <<clients, seen, db, tokens, log>>

GetUser ==
    \E id \in UserIds : \E h \in ReadHeaderValues(MOCK_USERS, id) :
        get_user(id, h) /\ UNCHANGED <<clients, seen, db, tokens, log>>

CreateUser ==
    \E e \in Emails, c \in CreateCities : create_user(e, c) /\ UNCHANGED <<clients, seen, db, tokens, log>>

RegisterUser ==
    \E e \in Emails, c \in CreateCities : register_user(e, c) /\ UNCHANGED <<clients, seen, db, tokens, log>>

UpdateUser ==
    \E a \in Actors, id \in UserIds, b \in UpdateBodies :
        \E h \in WriteHeaderValues(MOCK_USERS, id) :
            update_user(a, id, b, h) /\ UNCHANGED <<clients, seen, db, tokens, log>>

DeleteUser ==
    \E a \in Actors, id \in UserIds :
        \E h \in WriteHeaderValues(MOCK_USERS, id) :
            delete_user(a, id, h) /\ UNCHANGED <<clients, seen, db, tokens, log>>

LoginUser ==
    \E e \in Emails, p \in Passwords : login_user(e, p) /\ UNCHANGED <<clients, seen, db, tokens, log>>

\* log.submitted: the job ids the 202 answers have returned.
VerifyEmailAsync ==
    \E id \in UserIds :
        /\ verify_email_async(id, id)
        /\ log' = IF resp'.status = 202
                  THEN [log EXCEPT !.submitted = @ \cup {resp'.body[1].task_id}]
                  ELSE log
        /\ UNCHANGED <<clients, seen, db, tokens>>

SendVerificationEmailTask ==
    \E job \in background_tasks : send_verification_email_task(job) /\ UNCHANGED <<clients, seen, db, tokens, log>>

\* log.completed_seen: the job ids a poll has shown as completed.
GetTaskStatus ==
    \E t \in TaskIds :
        /\ get_task_status(t)
        /\ log' = IF resp'.status = 200 /\ resp'.body[1].status = "completed"
                  THEN [log EXCEPT !.completed_seen = @ \cup {t}]
                  ELSE log
        /\ UNCHANGED <<clients, seen, db, tokens>>

GetUserRentals ==
    \E a \in Actors, id \in UserIds, active_only \in BOOLEAN :
        get_user_rentals(a, id, active_only) /\ UNCHANGED <<clients, seen, db, tokens, log>>

GetUserRentalDetails ==
    \E a \in Actors, id \in UserIds, r \in RentalIds :
        get_user_rental_details(a, id, r) /\ UNCHANGED <<clients, seen, db, tokens, log>>

\* ---------------------------------------------------------- specifications
\* Spec: the user endpoints of the router, every request with every input.
Next ==
    \/ GetUsers
    \/ GetUser
    \/ CreateUser
    \/ RegisterUser
    \/ UpdateUser
    \/ DeleteUser
    \/ LoginUser
    \/ GetUserRentals
    \/ GetUserRentalDetails

Spec == Init /\ [][Next]_vars

\* An observer that remembers which ETag the GETs of a record returned since
\* the last accepted write to it.
AcceptedWrite(r) ==
    /\ r.op \in {"create_user", "register_user", "update_user", "delete_user"}
    /\ r.status \in {200, 201, 204}

Observe ==
    seen' = [id \in UserIds |->
                IF resp'.uid = id /\ AcceptedWrite(resp') THEN NoHeader
                ELSE IF resp'.uid = id /\ resp'.op = "get_user" /\ resp'.status \in {200, 304}
                     THEN resp'.etag
                     ELSE seen[id]]

ReadGetUsers ==
    \E skip \in Skips, limit \in Limits :
        get_users(skip, limit) /\ Observe /\ UNCHANGED <<clients, db, tokens, log>>

ReadGetUser ==
    \E id \in UserIds : \E h \in ReadHeaderValues(MOCK_USERS, id) :
        get_user(id, h) /\ Observe /\ UNCHANGED <<clients, db, tokens, log>>

ReadLoginUser ==
    \E e \in Emails, p \in Passwords : login_user(e, p) /\ Observe /\ UNCHANGED <<clients, db, tokens, log>>

ReadGetTaskStatus == \E t \in TaskIds : get_task_status(t) /\ Observe /\ UNCHANGED <<clients, db, tokens, log>>

ReadUpdateUser ==
    \E id \in UserIds, b \in UpdateBodies :
        update_user(id, id, b, NoHeader) /\ Observe /\ UNCHANGED <<clients, db, tokens, log>>

ReadDeleteUser ==
    \E id \in UserIds : delete_user(id, id, NoHeader) /\ Observe /\ UNCHANGED <<clients, db, tokens, log>>

\* SpecStable: the observed reads and writes, with verify-email jobs
\* submitted, run and polled.
NextStable ==
    \/ ReadGetUsers
    \/ ReadGetUser
    \/ ReadLoginUser
    \/ ReadGetTaskStatus
    \/ ReadUpdateUser
    \/ ReadDeleteUser
    \/ (Len(task_storage) < MaxPolledTasks /\ VerifyEmailAsync)
    \/ SendVerificationEmailTask

SpecStable == Init /\ [][NextStable]_vars

\* SpecUpdate: partial updates with every body, read back by GET.
PutUser ==
    \E id \in UserIds, b \in UpdateBodies :
        update_user(id, id, b, NoHeader) /\ UNCHANGED <<clients, seen, db, tokens, log>>

ReadBack ==
    \E id \in UserIds : get_user(id, NoHeader) /\ UNCHANGED <<clients, seen, db, tokens, log>>

\* SpecRead: the single-record GET with every header value, between the
\* writes that move a fingerprint or remove the record.
NextRead ==
    \/ GetUser
    \/ PutUser
    \/ DeleteUser

SpecRead == Init /\ [][NextRead]_vars

NextUpdate ==
    \/ PutUser
    \/ ReadBack

SpecUpdate == Init /\ [][NextUpdate]_vars

\* SpecRace: two clients; each reads a record (GET), keeps the ETag of the
\* answer, and later writes (PUT) with that ETag in If-Match.  `raced' marks
\* the two when both held the same fingerprint of the same record before
\* either had written.
ClientRead(w, user_id) ==
    /\ clients[w].pc = "idle"
    /\ user_id \in Keys(MOCK_USERS)
    /\ get_user(user_id, NoHeader)
    /\ LET rivals == {v \in Clients \ {w} :
                        /\ clients[v].pc = "holding"
                        /\ clients[v].uid = user_id
                        /\ clients[v].etag = resp'.etag}
       IN  clients' = [v \in Clients |->
                          IF v = w
                          THEN [pc |-> "holding", uid |-> user_id, etag |-> resp'.etag,
                                raced |-> rivals # {}, status |-> 0]
                          ELSE IF v \in rivals
                               THEN [clients[v] EXCEPT !.raced = TRUE]
                               ELSE clients[v]]
    /\ UNCHANGED <<seen, db, tokens, log>>

ClientWrite(w, user) ==
    /\ clients[w].pc = "holding"
    /\ update_user(clients[w].uid, clients[w].uid, user, clients[w].etag)
    /\ clients' = [clients EXCEPT ![w].pc = "done", ![w].status = resp'.status]
    /\ UNCHANGED <<seen, db, tokens, log>>

ClientReads == \E w \in Clients, id \in UserIds : ClientRead(w, id)

ClientWrites == \E w \in Clients, b \in UpdateBodies : ClientWrite(w, b)

NextRace ==
    \/ ClientReads
    \/ ClientWrites

SpecRace == Init /\ [][NextRace]_vars

\* SpecJobs: the verify-email job tracker beside the deletion of users.
JobDeleteUser ==
    \E id \in UserIds :
        delete_user(id, id, NoHeader) /\ UNCHANGED <<clients, seen, db, tokens, log>>

NextJobs ==
    \/ VerifyEmailAsync
    \/ SendVerificationEmailTask
    \/ GetTaskStatus
    \/ JobDeleteUser

SpecJobs == Init /\ [][NextJobs]_vars

\* The thread pool runs every task it was handed.
Jobs == [user_id : UserIds, task_id : TaskIds]

NextWorker ==
    \/ VerifyEmailAsync
    \/ SendVerificationEmailTask
    \/ JobDeleteUser

SpecJobsFair ==
    Init /\ [][NextWorker]_vars
         /\ \A job \in Jobs :
              WF_vars(send_verification_email_task(job)
                        /\ UNCHANGED <<clients, seen, db, tokens, log>>)
\* SpecBlind: writes that carry no If-Match.  log.puts[id] keeps the bodies of
\* the last two accepted updates of record id, the later one last.
LastTwo(q, b) == IF Len(q) < 2 THEN Append(q, b) ELSE << q[2], b >>

\* The bodies of the blind writes: city set, city nulled, email nulled.
BlindBodies == {b \in UpdateBodies : b \in {[city |-> "Seattle"], [city |-> None], [email |-> None]}}

BlindPut ==
    \E id \in UserIds, b \in BlindBodies :
        /\ update_user(id, id, b, NoHeader)
        /\ log' = IF resp'.status # 404
                  THEN [log EXCEPT !.puts[id] = LastTwo(@, b)]
                  ELSE log
        /\ UNCHANGED <<clients, seen, db, tokens>>

BlindDelete ==
    \E id \in UserIds :
        /\ delete_user(id, id, NoHeader)
        /\ log' = IF resp'.status = 204
                  THEN [log EXCEPT !.puts[id] = << >>]
                  ELSE log
        /\ UNCHANGED <<clients, seen, db, tokens>>

NextBlind ==
    \/ BlindPut
    \/ BlindDelete

SpecBlind == Init /\ [][NextBlind]_vars


\* SpecAuth: the users table and the two ways in (password, Google).
Assertions ==
    {FailedAssertion, IdInfo("another-client", "john.smith@email.com", "Ann", "Lee")}
        \cup {IdInfo(GOOGLE_CLIENT_ID, e, "Ann", f) : e \in Emails \cup {None}, f \in {"Lee", None}}

\* What a client may present to routers/auth.py: a credential minted here, one
\* signed with another key, one signed here that carries no subject.
Credentials ==
    tokens
       \cup {jwt_encode([sub |-> str(1), email |-> "john.smith@email.com",
                         iat |-> clock, exp |-> clock + 1], "another-key"),
             jwt_encode([sub |-> NoSub, email |-> "john.smith@email.com",
                         iat |-> clock, exp |-> clock + 1], JWT_SECRET),
             jwt_encode([sub |-> [type |-> "str", v |-> "john.smith@email.com"],
                         email |-> "john.smith@email.com",
                         iat |-> clock, exp |-> clock + 1], JWT_SECRET)}

\* What a client may present to dependencies.py.
AccessTokens ==
    {jwt_encode([sub |-> sub, exp |-> exp], key) :
        sub \in {[type |-> "str", v |-> e] : e \in Emails} \cup {NoSub},
        exp \in {clock, clock + 1},
        key \in {SECRET_KEY, "another-key"}}

\* The Authorization headers a client may send with some credential: none, a
\* Basic one, a Bearer one without a token, a Bearer one with the credential.
Authorizations(credentials) ==
    {NoAuthorization, BearerWithoutToken, Authorization("Basic", jwt_segments("user:password"))}
        \cup {Authorization("Bearer", token) : token \in credentials}

\* The bodies crud.update_user is given: another email, or a null one.
DbUpdateBodies == {[email |-> e] : e \in Emails \cup {None}}

CrudUpdateUser ==
    \E id \in UserIds, user \in DbUpdateBodies :
        crud_update_user(id, user) /\ UNCHANGED <<clients, seen, log>>

UpdateUserStatus ==
    \E id \in UserIds, status \in {"active", "inactive"} :
        update_user_status(id, status) /\ UNCHANGED <<clients, seen, log>>

CrudCreateUser ==
    \E e \in Emails : crud_create_user(e, "secret123") /\ UNCHANGED <<clients, seen, log>>

CrudDeleteUser ==
    \E id \in UserIds : crud_delete_user(id) /\ UNCHANGED <<clients, seen, log>>

AuthenticateUser ==
    \E e \in Emails, p \in Passwords :
        authenticate_user(e, p) /\ UNCHANGED <<clients, seen, log>>

GoogleLogin ==
    \E idinfo \in Assertions : google_login(idinfo) /\ UNCHANGED <<clients, seen, log>>

GetCurrentUser ==
    \E authorization \in Authorizations(Credentials), now \in Utcnow :
        /\ get_current_user(authorization, now)
        /\ log' = [log EXCEPT !.presented = << authorization >>]
        /\ UNCHANGED <<clients, seen>>

DependenciesGetCurrentUser ==
    \E authorization \in Authorizations(AccessTokens), now \in Utcnow :
        /\ dependencies_get_current_user(authorization, now)
        /\ log' = [log EXCEPT !.presented = << authorization >>]
        /\ UNCHANGED <<clients, seen>>

GetCurrentActiveUser ==
    \E authorization \in Authorizations(AccessTokens), now \in Utcnow :
        /\ get_current_active_user(authorization, now)
        /\ log' = [log EXCEPT !.presented = << authorization >>]
        /\ UNCHANGED <<clients, seen>>

NextAuth ==
    \/ CrudCreateUser
    \/ CrudUpdateUser
    \/ UpdateUserStatus
    \/ CrudDeleteUser
    \/ AuthenticateUser
    \/ GoogleLogin

SpecAuth == Init /\ [][NextAuth]_vars

\* SpecVerify: credentials are minted by Google logins, users come and go, and
\* credentials are presented to the two verifiers.
MintCredential ==
    \E e \in Emails :
        /\ Cardinality(tokens) < MaxTokens
        /\ google_login(IdInfo(GOOGLE_CLIENT_ID, e, "Ann", "Lee"))
        /\ UNCHANGED <<clients, seen, log>>

NextVerify ==
    \/ MintCredential
    \/ CrudUpdateUser
    \/ UpdateUserStatus
    \/ CrudDeleteUser
    \/ GetCurrentUser
    \/ DependenciesGetCurrentUser
    \/ GetCurrentActiveUser

SpecVerify == Init /\ [][NextVerify]_vars

\* SpecList: the list endpoint between creates, updates and deletes.
ListCreateUser ==
    create_user("jane.doe@email.com", None) /\ UNCHANGED <<clients, seen, db, tokens, log>>

ListPutUser ==
    \E id \in UserIds, b \in {[city |-> "Seattle"], [email |-> None]} :
        /\ update_user(id, id, b, NoHeader)
        /\ UNCHANGED <<clients, seen, db, tokens, log>>

NextList ==
    \/ GetUsers
    \/ ListCreateUser
    \/ ListPutUser
    \/ JobDeleteUser

SpecList == Init /\ [][NextList]_vars

\* SpecRentals: the two rentals endpoints while the orders service answers in
\* every way it can.  log.upstream keeps what the orders service would answer
\* to the call the request stands for.
UpstreamOutcomes ==
    {[kind |-> "response", status |-> 200, body |-> << [rental_id |-> r] >>] : r \in RentalIds}
        \cup {[kind |-> "response", status |-> st, body |-> << >>] : st \in {200, 404, 500}}
        \cup {[kind |-> k, status |-> 0, body |-> << >>] : k \in {"ConnectError", "Timeout"}}

RentalsList ==
    \E id \in UserIds, active_only \in BOOLEAN, up \in UpstreamOutcomes :
        /\ get_user_rentals(id, id, active_only)
        /\ log' = [log EXCEPT !.upstream = << up >>]
        /\ UNCHANGED <<clients, seen, db, tokens>>

RentalsDetail ==
    \E id \in UserIds, r \in RentalIds, up \in UpstreamOutcomes :
        /\ get_user_rental_details(id, id, r)
        /\ log' = [log EXCEPT !.upstream = << up >>]
        /\ UNCHANGED <<clients, seen, db, tokens>>

NextRentals ==
    \/ RentalsList
    \/ RentalsDetail
    \/ ListCreateUser
    \/ ListPutUser
    \/ JobDeleteUser

SpecRentals == Init /\ [][NextRentals]_vars

\* SpecIds: creates and registrations between deletes.  log.issued keeps the
\* identifiers the successful creates have returned so far.
IdsCreateUser ==
    \E e \in Emails :
        /\ create_user(e, None)
        /\ log' = [log EXCEPT !.issued = @ \cup {resp'.uid}]
        /\ UNCHANGED <<clients, seen, db, tokens>>

IdsRegisterUser ==
    \E e \in Emails :
        /\ register_user(e, None)
        /\ log' = [log EXCEPT !.issued = @ \cup {resp'.uid}]
        /\ UNCHANGED <<clients, seen, db, tokens>>

NextIds ==
    \/ IdsCreateUser
    \/ IdsRegisterUser
    \/ JobDeleteUser

SpecIds == Init /\ [][NextIds]_vars

\* SpecTokens: credentials minted by the two entry paths are presented to the
\* two verifiers while users come and go.
TokenLoginUser ==
    \E e \in Emails, p \in Passwords :
        login_user(e, p) /\ UNCHANGED <<clients, seen, db, tokens, log>>

Verify(authorization, now) ==
    \/ get_current_user(authorization, now)
    \/ dependencies_get_current_user(authorization, now)
    \/ get_current_active_user(authorization, now)

PresentMinted ==
    \E token \in tokens, now \in Utcnow :
        /\ Verify(Authorization("Bearer", token), now)
        /\ log' = [log EXCEPT !.presented = << Authorization("Bearer", token) >>]
        /\ UNCHANGED <<clients, seen>>

PresentLoginToken ==
    \E now \in Utcnow :
        /\ resp.op = "login_user"
        /\ resp.status = 200
        /\ LET authorization == Authorization("Bearer", jwt_segments(resp.body[1].token))
           IN  /\ Verify(authorization, now)
               /\ log' = [log EXCEPT !.presented = << authorization >>]
        /\ UNCHANGED <<clients, seen>>

NextTokens ==
    \/ MintCredential
    \/ CrudUpdateUser
    \/ UpdateUserStatus
    \/ CrudDeleteUser
    \/ TokenLoginUser
    \/ PresentMinted
    \/ PresentLoginToken

SpecTokens == Init /\ [][NextTokens]_vars

\* SpecDelete: deletes and the requests that follow them, in the router and in
\* the users table.  log.deleted keeps the identifiers whose record a DELETE
\* has removed and no create has stored since.
DeleteThenLog ==
    \E id \in UserIds :
        /\ delete_user(id, id, NoHeader)
        /\ log' = IF resp'.status = 204
                  THEN [log EXCEPT !.deleted = @ \cup {id}]
                  ELSE log
        /\ UNCHANGED <<clients, seen, db, tokens>>

CreateAfterDelete ==
    create_user("jane.doe@email.com", None) /\ UNCHANGED <<clients, seen, db, tokens, log>>

RequestAfterDelete ==
    \E id \in log.deleted :
        /\ \/ \E h \in {NoHeader, OtherString} : get_user(id, h)
           \/ update_user(id, id, [city |-> "Seattle"], NoHeader)
           \/ verify_email_async(id, id)
           \/ get_user_rentals(id, id, FALSE)
           \/ get_user_rental_details(id, id, 7)
           \/ \E skip \in Skips, limit \in Limits : get_users(skip, limit)
        /\ UNCHANGED <<clients, seen, db, tokens, log>>

CrudCreateOne ==
    /\ \/ crud_create_user("john.smith@email.com", "secret123")
       \/ crud_users_create_user("john.smith@email.com")
    /\ UNCHANGED <<clients, seen, log>>

NextDelete ==
    \/ DeleteThenLog
    \/ CreateAfterDelete
    \/ RequestAfterDelete
    \/ CrudCreateOne
    \/ CrudDeleteUser

SpecDelete == Init /\ [][NextDelete]_vars

\* SpecImmutable: PUT requests whose JSON also names user_id and created_at.
\* log.sent keeps the JSON of the last PUT.
JsonBodies ==
    {[city |-> "Seattle"]}
        \cup {[user_id |-> u] : u \in UserIds}
        \cup {[city |-> "Seattle", user_id |-> u, created_at |-> Datetime(MaxClock)] :
                 u \in UserIds}

\* A model with no Config that takes every key of the JSON.
UserUpdateExtraAllowed(json) ==
    json

\* UserUpdate declares the profile fields only and no Config: pydantic drops
\* the keys of the JSON that are not declared fields.
UserUpdate(json) ==
    [f \in DOMAIN json \cap UpdateFields |-> json[f]]

PutJson ==
    \E id \in UserIds, json \in JsonBodies :
        /\ update_user(id, id, UserUpdate(json), NoHeader)
        /\ log' = [log EXCEPT !.sent = << json >>]
        /\ UNCHANGED <<clients, seen, db, tokens>>

NextImmutable ==
    \/ PutJson
    \/ ListCreateUser
    \/ JobDeleteUser

SpecImmutable == Init /\ [][NextImmutable]_vars

\* ------------------------------------------------------------------ claims
Fingerprint(users, user_id) == generate_etag(Lookup(users, user_id))

\* C1, as claimed: an update of a stored record whose current fingerprint is F
\* that carries If-Match = G, G # F, is answered 412 and leaves the stored
\* records (updated-at and fingerprint included) as they were.
C1_StaleIfMatchRejected ==
    [][\A a \in Actors, id \in UserIds, b \in UpdateBodies :
         \A g \in WriteHeaderValues(MOCK_USERS, id) :
            ( /\ id \in Keys(MOCK_USERS)
              /\ g # NoHeader
              /\ g # Fingerprint(MOCK_USERS, id)
              /\ update_user(a, id, b, g) )
            => (resp'.status = 412 /\ MOCK_USERS' = MOCK_USERS)]_vars

\* C2, as claimed: an actor A who asks for an update, a delete or the rentals
\* of a target B # A is answered 403 and the store is unchanged, whether or
\* not B is stored.
C2_ForeignTargetForbidden ==
    [][\A a \in Actors, id \in UserIds :
          ( /\ a # id
            /\ \/ \E b \in UpdateBodies : \E h \in WriteHeaderValues(MOCK_USERS, id) :
                     update_user(a, id, b, h)
               \/ \E h \in WriteHeaderValues(MOCK_USERS, id) : delete_user(a, id, h)
               \/ \E active_only \in BOOLEAN : get_user_rentals(a, id, active_only) )
          => (resp'.status = 403 /\ MOCK_USERS' = MOCK_USERS)]_vars

\* C3: a GET of a stored record whose fingerprint is F answers 304 with an
\* empty body and ETag F when If-None-Match is F, and the full resource (200)
\* with ETag F for every other If-None-Match value and for none.
C3_ConditionalRead ==
    [][\A id \in UserIds : \A h \in ReadHeaderValues(MOCK_USERS, id) :
          (id \in Keys(MOCK_USERS) /\ resp'.uid = id /\ get_user(id, h))
          => LET F == Fingerprint(MOCK_USERS, id)
             IN  /\ resp'.etag = F
                 /\ h = F => (resp'.status = 304 /\ resp'.body = << >>)
                 /\ h # F => ( /\ resp'.status = 200
                               /\ resp'.body = << Rendered(Lookup(MOCK_USERS, id)) >> )]_vars

\* A 304 for the fingerprint of a record that has been updated since start.
C3_Witness ==
    /\ resp.op = "get_user"
    /\ resp.status = 304
    /\ resp.etag.iso > JaneTime

\* C4, as claimed: of two writers that both read fingerprint F of a record
\* before either wrote, and both write with If-Match = F, at most one is
\* accepted and the other is answered 412.
C4_OneRacerWins ==
    \A w1, w2 \in Clients :
        ( /\ w1 # w2
          /\ clients[w1].pc = "done" /\ clients[w2].pc = "done"
          /\ clients[w1].raced /\ clients[w2].raced )
        => /\ ~(clients[w1].status = 200 /\ clients[w2].status = 200)
           /\ clients[w1].status = 412 \/ clients[w2].status = 412

\* C5, as claimed: no two stored user records have the same email.
C5_EmailUnique ==
    \A i, j \in 1..Len(MOCK_USERS) :
        i # j => MOCK_USERS[i].val.email # MOCK_USERS[j].val.email

\* C6, as claimed: a create or register whose email is the email of a stored
\* record is answered Conflict (400/409) and the store is left as it was.
C6_DuplicateEmailConflict ==
    [][\A e \in Emails, c \in CreateCities :
          ( /\ \E i \in 1..Len(MOCK_USERS) : MOCK_USERS[i].val.email = e
            /\ create_user(e, c) \/ register_user(e, c) )
          => (resp'.status \in {400, 409} /\ MOCK_USERS' = MOCK_USERS)]_vars

\* C7, as claimed: an update of a stored record that carries If-Match = F, F the
\* record's current fingerprint, is accepted and leaves the record with a
\* fingerprint other than F, whatever the body.
C7_AcceptedUpdateChangesFingerprint ==
    [][\A a \in Actors, id \in UserIds, b \in UpdateBodies :
          ( /\ id \in Keys(MOCK_USERS)
            /\ update_user(a, id, b, Fingerprint(MOCK_USERS, id)) )
          => ( /\ resp'.status = 200
               /\ Fingerprint(MOCK_USERS', id) # Fingerprint(MOCK_USERS, id) )]_vars

\* C8, as claimed: GETs, list requests, logins and job polls change no stored user record,
\* and every GET of a record returns the ETag the earlier GETs of it returned
\* since the last accepted write to it.
C8_FingerprintStableAcrossReads ==
    [][ /\ resp'.op \in {"get_user", "get_users", "login_user", "get_task_status"}
              => MOCK_USERS' = MOCK_USERS
        /\ \A id \in UserIds :
              ( /\ resp'.op = "get_user" /\ resp'.uid = id
                /\ resp'.status \in {200, 304}
                /\ seen[id] # NoHeader )
              => resp'.etag = seen[id] ]_vars

\* C9, as claimed: a stored record's updated-at never decreases, and after
\* every accepted update it is strictly greater than before.
C9_UpdatedAtStrictlyGrows ==
    [][\A id \in Keys(MOCK_USERS) \cap Keys(MOCK_USERS') :
          LET before == Lookup(MOCK_USERS, id).updated_at.v
              after == Lookup(MOCK_USERS', id).updated_at.v
          IN  /\ after >= before
              /\ (resp'.op = "update_user" /\ resp'.uid = id /\ resp'.status = 200)
                    => after > before]_vars

\* C10: an update of a stored record sets every field of the body to the value
\* given, an explicit null included, keeps every field not in the body, and
\* modifies no other record; it is answered 200, or 500 when the record it
\* leaves has a null email (the write is applied all the same).
C10_PartialUpdate ==
    [][\A id \in UserIds, b \in UpdateBodies :
            ( /\ resp'.op = "update_user"
              /\ resp'.uid = id
              /\ resp'.status # 404
              /\ update_user(id, id, b, NoHeader) )
            => LET old == Lookup(MOCK_USERS, id)
                   new == Lookup(MOCK_USERS', id)
               IN  /\ resp'.status = IF new.email = None THEN 500 ELSE 200
                   /\ Keys(MOCK_USERS') = Keys(MOCK_USERS)
                   /\ \A k \in Keys(MOCK_USERS) \ {id} :
                         Lookup(MOCK_USERS', k) = Lookup(MOCK_USERS, k)
                   /\ DOMAIN new = DOMAIN old
                   /\ \A f \in DOMAIN old \ {"updated_at"} :
                         new[f] = IF f \in DOMAIN b THEN b[f] ELSE old[f]]_vars

\* An accepted update has left a record with a null city: no record starts
\* with one, so a body supplied the null.
C10_Witness ==
    /\ resp.op = "update_user"
    /\ resp.status = 200
    /\ resp.uid \in Keys(MOCK_USERS)
    /\ Lookup(MOCK_USERS, resp.uid).city = None
    /\ Lookup(MOCK_USERS, resp.uid).email # InitialMockUsers[resp.uid].val.email

\* C11, as claimed: a DELETE of a stored record whose current fingerprint is F
\* with If-Match = G, G # F, is answered 412 and leaves the stored records as
\* they were; with If-Match = F it removes the record and answers 204.
C11_DeleteIfMatch ==
    [][\A a \in Actors, id \in UserIds :
         \A g \in WriteHeaderValues(MOCK_USERS, id) :
            ( /\ id \in Keys(MOCK_USERS)
              /\ g # NoHeader
              /\ delete_user(a, id, g) )
            => IF g = Fingerprint(MOCK_USERS, id)
               THEN resp'.status = 204 /\ id \notin Keys(MOCK_USERS')
               ELSE resp'.status = 412 /\ MOCK_USERS' = MOCK_USERS]_vars

\* C12: a write without If-Match goes through on every stored record, whatever
\* its fingerprint: the update stores the body's values (answering 200, or 500
\* when the record it leaves has a null email), the
\* delete answers 204 and removes the record; of the last two updates of a
\* record that both set a field, the later one's value is the stored one; and
\* the write is enabled in every state (it waits for no other request).
C12_BlindWriteProceeds ==
    /\ [](\A id \in Keys(MOCK_USERS) :
             /\ \A b \in BlindBodies :
                   ENABLED (update_user(id, id, b, NoHeader)
                              /\ UNCHANGED <<clients, seen, db, tokens, log>>)
             /\ ENABLED (delete_user(id, id, NoHeader)
                          /\ UNCHANGED <<clients, seen, db, tokens, log>>))
    /\ [][ /\ \A id \in Keys(MOCK_USERS), b \in BlindBodies :
                 (resp'.op = "update_user" /\ resp'.uid = id
                    /\ update_user(id, id, b, NoHeader))
                 => /\ resp'.status =
                          IF Lookup(MOCK_USERS', id).email = None THEN 500 ELSE 200
                    /\ \A f \in DOMAIN b : Lookup(MOCK_USERS', id)[f] = b[f]
           /\ \A id \in Keys(MOCK_USERS) :
                 (resp'.op = "delete_user" /\ resp'.uid = id
                    /\ delete_user(id, id, NoHeader))
                 => (resp'.status = 204 /\ id \notin Keys(MOCK_USERS'))
           /\ \A id \in Keys(MOCK_USERS') :
                 Len(log'.puts[id]) = 2
                    => \A f \in DOMAIN log'.puts[id][1] \cap DOMAIN log'.puts[id][2] :
                          Lookup(MOCK_USERS', id)[f] = log'.puts[id][2][f] ]_vars

\* Two updates of one record have set its city to different values, and the
\* record holds the later one.
C12_Witness ==
    \E id \in Keys(MOCK_USERS) :
        /\ Len(log.puts[id]) = 2
        /\ "city" \in DOMAIN log.puts[id][1] \cap DOMAIN log.puts[id][2]
        /\ log.puts[id][1].city # log.puts[id][2].city
        /\ Lookup(MOCK_USERS, id).city = log.puts[id][2].city

\* The credential a stored record carries: a record of MOCK_USERS has none.
StoredCredential(user) ==
    IF "hashed_password" \in DOMAIN user THEN user.hashed_password ELSE NoPassword

\* C13, as claimed: a password login answers with a token only if a stored
\* user has the email and the password verifies against that user's stored
\* credential; otherwise it answers 401 without a token; it never changes the
\* stored records.
C13_PasswordLogin ==
    [][\A e \in Emails, p \in Passwords :
          login_user(e, p)
          => LET verified == \E i \in 1..Len(MOCK_USERS) :
                                /\ MOCK_USERS[i].val.email = e
                                /\ verify_password(p, StoredCredential(MOCK_USERS[i].val))
             IN  /\ MOCK_USERS' = MOCK_USERS
                 /\ resp'.status = 200 => verified
                 /\ ~verified => (resp'.status = 401 /\ resp'.body = << >>)]_vars

\* C14, as claimed: a verifier accepts what a request presents only if it is a
\* bearer credential signed with the service's key, with exp after the time of
\* the check and a subject that is a user stored at that time (the identifier
\* for routers/auth.py, the email for dependencies.py); the two
\* get_current_user accept every such credential; everything else presented,
\* a missing or malformed credential included, gets 401, never 403 or 404.
C14_TokenVerification ==
    [][\A now \in Utcnow :
          /\ resp'.op = "get_current_user"
             => \A a \in Authorizations(Credentials) :
                   (log'.presented = << a >> /\ get_current_user(a, now))
                   => LET ok == /\ a.scheme = "Bearer"
                                /\ a.credentials # << >>
                                /\ a.credentials[1].key = JWT_SECRET
                                /\ a.credentials[1].payload.exp > now
                                /\ a.credentials[1].payload.sub.type = "str"
                                /\ \E i \in 1..Len(db.users) :
                                      ToString(db.users[i].user_id)
                                         = a.credentials[1].payload.sub.v
                      IN  /\ resp'.status = 200 <=> ok
                          /\ ok => ToString(resp'.uid) = a.credentials[1].payload.sub.v
                          /\ ~ok => resp'.status = 401
          /\ resp'.op \in {"dependencies_get_current_user", "get_current_active_user"}
             => \A a \in Authorizations(AccessTokens) :
                   ( /\ log'.presented = << a >>
                     /\ \/ dependencies_get_current_user(a, now)
                        \/ get_current_active_user(a, now) )
                   => LET ok == /\ a.scheme = "Bearer"
                                /\ a.credentials # << >>
                                /\ a.credentials[1].key = SECRET_KEY
                                /\ a.credentials[1].payload.exp > now
                                /\ a.credentials[1].payload.sub.type = "str"
                                /\ \E i \in 1..Len(db.users) :
                                      db.users[i].email = a.credentials[1].payload.sub.v
                      IN  /\ resp'.status = 200 => ok
                          /\ (ok /\ resp'.op = "dependencies_get_current_user")
                                => resp'.status = 200
                          /\ ~ok => resp'.status = 401 ]_vars

\* C15, as claimed: a Google login whose assertion verifies, for email e: when
\* a user with email e is stored, the table stays as it is and the credential
\* returned has that user's identifier as subject; when none is stored, exactly
\* one row is added (email e, status active, no password) and the credential
\* returned has the new identifier as subject.  A login whose assertion does
\* not verify adds no row and mints no credential.
C15_GoogleLogin ==
    [][\A idinfo \in Assertions :
          (resp'.op = "google_login" /\ google_login(idinfo))
          => IF idinfo.ok /\ idinfo.aud = GOOGLE_CLIENT_ID
             THEN idinfo.email \in Emails
                  => LET existing == SelectSeq(db.users, LAMBDA row : row.email = idinfo.email)
                         minted == resp'.body[1].access_token
                     IN  /\ resp'.status = 200
                         /\ tokens' = tokens \cup {minted}
                         /\ IF Len(existing) > 0
                            THEN /\ db' = db
                                 /\ minted.payload.sub = str(existing[1].user_id)
                            ELSE /\ Len(db'.users) = Len(db.users) + 1
                                 /\ SubSeq(db'.users, 1, Len(db.users)) = db.users
                                 /\ LET new == db'.users[Len(db'.users)]
                                    IN  /\ new.email = idinfo.email
                                        /\ new.status = "active"
                                        /\ new.hashed_password = NoPassword
                                        /\ \A i \in 1..Len(db.users) :
                                              db.users[i].user_id # new.user_id
                                        /\ minted.payload.sub = str(new.user_id)
             ELSE /\ db' = db
                  /\ tokens' = tokens
                  /\ resp'.status = 401
                  /\ resp'.body = << >>]_vars

\* C16: a verify-email submission for a stored user answers 202 with a fresh
\* job id and stores that job as pending, with started_at set and completed_at
\* absent, while its worker has not run yet; the worker's step leaves the same
\* job completed with completed_at set and with the job id, the owning user id
\* and started_at it had.
C16_SubmitThenComplete ==
    [][ /\ \A id \in UserIds :
              (id \in Keys(MOCK_USERS) /\ resp'.uid = id /\ verify_email_async(id, id))
              => /\ resp'.status = 202
                 /\ LET t == resp'.body[1].task_id
                    IN  /\ t \notin Keys(task_storage)
                        /\ t \in Keys(task_storage')
                        /\ resp'.body[1].status = "pending"
                        /\ Lookup(task_storage', t).task_id = t
                        /\ Lookup(task_storage', t).user_id = id
                        /\ Lookup(task_storage', t).status = "pending"
                        /\ Lookup(task_storage', t).started_at.type = "str"
                        /\ Lookup(task_storage', t).completed_at = NoTime
                        /\ [user_id |-> id, task_id |-> t] \in background_tasks'
        /\ \A job \in background_tasks :
              (job \notin background_tasks' /\ send_verification_email_task(job))
              => LET before == Lookup(task_storage, job.task_id)
                     after == Lookup(task_storage', job.task_id)
                 IN  /\ before.status = "pending"
                     /\ after.status = "completed"
                     /\ after.completed_at.type = "str"
                     /\ after.task_id = before.task_id
                     /\ after.user_id = before.user_id
                     /\ after.started_at = before.started_at ]_vars

\* A job has been completed at a later tick than it was started.
C16_Witness ==
    \E t \in Keys(task_storage) :
        /\ Lookup(task_storage, t).status = "completed"
        /\ Lookup(task_storage, t).completed_at.v > Lookup(task_storage, t).started_at.v

\* C17: under fair scheduling of the workers, every job id a 202 answer has
\* returned is eventually stored as completed (so that a poll of it answers
\* completed), whatever requests come in between, the deletion of the owning
\* user included.
C17_EveryJobCompletes ==
    \A t \in TaskIds :
        (t \in log.submitted)
           ~> (t \in Keys(task_storage) /\ Lookup(task_storage, t).status = "completed")

\* A job is completed though its owning user has been deleted.
C17_Witness ==
    \E t \in log.submitted :
        /\ Lookup(task_storage, t).status = "completed"
        /\ Lookup(task_storage, t).user_id \notin Keys(MOCK_USERS)

\* C18: a stored job is never removed and changes only in the step of its own
\* worker, which runs once: pending -> completed, never back, and a completed
\* job never changes again; completed_at is absent exactly while the status is
\* pending; a worker's step changes no other job and no user record; and a
\* poll of a job that an earlier poll showed completed never shows pending.
C18_JobMutatedOnce ==
    [][ /\ task_storage' # task_storage
           => \A t \in Keys(task_storage) :
                 /\ t \in Keys(task_storage')
                 /\ LET before == Lookup(task_storage, t)
                        after == Lookup(task_storage', t)
                    IN  /\ before.status = "completed" => after = before
                        /\ after # before
                              => /\ before.status = "pending"
                                 /\ after.status = "completed"
                                 /\ \E job \in background_tasks \ background_tasks' :
                                       /\ job.task_id = t
                                       /\ background_tasks' = background_tasks \ {job}
                                       /\ MOCK_USERS' = MOCK_USERS
                                       /\ \A u \in Keys(task_storage) \ {t} :
                                             Lookup(task_storage', u) = Lookup(task_storage, u)
        /\ \A i \in 1..Len(task_storage') :
              task_storage'[i].val.completed_at = NoTime
                 <=> task_storage'[i].val.status = "pending"
        /\ resp'.op = "get_task_status"
           => \A t \in log.completed_seen :
                 resp'.uid = t => (resp'.status = 200 /\ resp'.body[1].status = "completed") ]_vars

\* A poll has shown one job completed while another job is still pending.
C18_Witness ==
    /\ log.completed_seen # {}
    /\ \E t \in Keys(task_storage) : Lookup(task_storage, t).status = "pending"

\* C19: a poll of a job id that a 202 answer has returned answers 200 with the
\* job as it is stored at that time (plus the links); a poll of any other id
\* answers 404; and no poll changes the job store.
C19_PollReturnsStoredJob ==
    [][\A t \in TaskIds :
          (resp'.op = "get_task_status" /\ resp'.uid = t /\ get_task_status(t))
          => /\ task_storage' = task_storage
             /\ IF t \in log.submitted
                THEN /\ resp'.status = 200
                     /\ LET shown == resp'.body[1]
                        IN  [f \in DOMAIN shown \ {"_links"} |-> shown[f]]
                               = Lookup(task_storage, t)
                ELSE resp'.status = 404 /\ resp'.body = << >>]_vars

\* A poll has answered with a completed job of a user that is no longer
\* stored, while another job id has not been handed out yet.
C19_Witness ==
    /\ resp.op = "get_task_status"
    /\ resp.status = 200
    /\ resp.body[1].status = "completed"
    /\ resp.body[1].user_id \notin Keys(MOCK_USERS)
    /\ TaskIds \ log.submitted # {}

\* The stored key with p - 1 stored keys below it.
KeyAt(users, p) ==
    CHOOSE k \in Keys(users) : Cardinality({j \in Keys(users) : j < k}) = p - 1

\* C20, as claimed: a list request with skip s and limit l answers with the
\* records at positions s+1 .. s+l of the stored records in ascending order of
\* their identifiers (fewer when the store ends earlier), after any creates,
\* updates and deletes: at most l records, the lowest identifier for s = 0 and l = 1, and none when s
\* is at least the number of stored records.
C20_Pagination ==
    [][resp'.op = "get_users"
       => \A s \in Skips, l \in Limits :
             get_users(s, l)
             => LET count == Len(MOCK_USERS)
                    n == IF s >= count THEN 0
                         ELSE IF s + l <= count THEN l ELSE count - s
                IN  /\ Len(resp'.body) = n
                    /\ n <= l
                    /\ \A i \in 1..n :
                          resp'.body[i] = User(Lookup(MOCK_USERS, KeyAt(MOCK_USERS, s + i)))
                    /\ (s = 0 /\ l = 1 /\ count > 0)
                          => \A k \in Keys(MOCK_USERS) : resp'.body[1].user_id <= k
                    /\ s >= count => resp'.body = << >>]_vars

\* C21, as claimed: for a stored user, the rentals list call passes an upstream
\* 200 through, answers an upstream 404 with an empty list, and answers every
\* other upstream status, a connection failure and a timeout with 503; the
\* detail call passes an upstream 200 through, answers an upstream 404 with
\* 404 and everything else with 503; neither changes a user record.
C21_RentalProxyMapping ==
    [][\A id \in UserIds, up \in UpstreamOutcomes :
          ( /\ id \in Keys(MOCK_USERS)
            /\ resp'.uid = id
            /\ log'.upstream = << up >>
            /\ \/ \E active_only \in BOOLEAN : get_user_rentals(id, id, active_only)
               \/ \E r \in RentalIds : get_user_rental_details(id, id, r) )
          => /\ MOCK_USERS' = MOCK_USERS
             /\ up.status = 200 => (resp'.status = 200 /\ resp'.body = up.body)
             /\ (up.status = 404 /\ resp'.op = "get_user_rentals")
                   => (resp'.status = 200 /\ resp'.body = << >>)
             /\ (up.status = 404 /\ resp'.op = "get_user_rental_details")
                   => resp'.status = 404
             /\ up.status \notin {200, 404} => resp'.status = 503]_vars

\* C22, as claimed: the identifier a successful create or registration returns
\* is the identifier of no stored record and of no earlier successful create,
\* also after records have been deleted in between.
C22_IdentifierNeverReassigned ==
    [][\A e \in Emails :
          ( /\ resp'.status = 201
            /\ create_user(e, None) \/ register_user(e, None) )
          => ( /\ resp'.uid \notin Keys(MOCK_USERS)
               /\ resp'.uid \notin log.issued )]_vars

\* C23, as claimed: a credential minted for a user U by the Google login or by
\* the password login, presented as a bearer credential to any of the
\* verifiers before its expiry while U is stored, is accepted (200) and
\* resolves to U's identifier.
C23_CredentialRoundTrip ==
    [][\A now \in Utcnow :
          /\ \A token \in tokens :
                ( /\ log'.presented = << Authorization("Bearer", token) >>
                  /\ Verify(Authorization("Bearer", token), now)
                  /\ token.payload.exp > now
                  /\ \E i \in 1..Len(db.users) :
                        db.users[i].user_id = int(token.payload.sub) )
                => (resp'.status = 200 /\ resp'.uid = int(token.payload.sub))
          /\ ( /\ resp.op = "login_user"
               /\ resp.status = 200
               /\ resp.uid \in Keys(MOCK_USERS)
               /\ log'.presented =
                     << Authorization("Bearer", jwt_segments(resp.body[1].token)) >>
               /\ Verify(Authorization("Bearer", jwt_segments(resp.body[1].token)), now) )
             => (resp'.status = 200 /\ resp'.uid = resp.uid)]_vars

\* C24, as claimed: a DELETE of a stored identifier i answers 204 and leaves
\* neither a record nor a tombstone for i, the other records as they were; from
\* then on GET, update, delete, verify-email and the rentals requests for i
\* answer 404 and change nothing, and no list page holds i.  A DELETE of an identifier that is not stored answers 404 and changes
\* nothing.  crud.delete_user removes the row of i from the users table, after
\* which crud.get_user finds none, and reports an absent row without a change.
C24_HardDelete ==
    [][\A id \in UserIds :
          /\ (resp'.op = "delete_user" /\ resp'.uid = id /\ delete_user(id, id, NoHeader))
             => IF id \in Keys(MOCK_USERS)
                THEN /\ resp'.status = 204
                     /\ MOCK_USERS' = SelectSeq(MOCK_USERS, LAMBDA item : item.key # id)
                     /\ \A i \in 1..Len(MOCK_USERS') :
                           MOCK_USERS'[i].key # id /\ MOCK_USERS'[i].val.user_id # id
                ELSE resp'.status = 404 /\ MOCK_USERS' = MOCK_USERS
          /\ id \in log.deleted
             => /\ ( /\ resp'.uid = id
                     /\ \/ \E h \in {NoHeader, OtherString} : get_user(id, h)
                        \/ update_user(id, id, [city |-> "Seattle"], NoHeader)
                        \/ delete_user(id, id, NoHeader)
                        \/ verify_email_async(id, id)
                        \/ get_user_rentals(id, id, FALSE)
                        \/ get_user_rental_details(id, id, 7) )
                   => ( /\ resp'.status = 404
                        /\ MOCK_USERS' = MOCK_USERS
                        /\ task_storage' = task_storage
                        /\ background_tasks' = background_tasks )
                /\ ( /\ resp'.op = "get_users"
                     /\ \E skip \in Skips, limit \in Limits : get_users(skip, limit) )
                   => \A i \in 1..Len(resp'.body) : resp'.body[i].user_id # id
          /\ (resp'.op = "crud_delete_user" /\ resp'.uid = id /\ crud_delete_user(id))
             => IF \E i \in 1..Len(db.users) : db.users[i].user_id = id
                THEN /\ resp'.status = 200
                     /\ db'.users = SelectSeq(db.users, LAMBDA row : row.user_id # id)
                     /\ \A i \in 1..Len(db'.users) : db'.users[i].user_id # id
                ELSE resp'.status = 404 /\ db' = db ]_vars

\* C25: whatever the requests, a record stored before and after a step keeps
\* its user_id and its created_at, and every stored record is stored under the
\* key equal to its user_id; a PUT of a stored record keeps it stored.
C25_IdentifierAndCreatedAtImmutable ==
    [][ /\ \A id \in Keys(MOCK_USERS) \cap Keys(MOCK_USERS') :
             /\ Lookup(MOCK_USERS', id).user_id = Lookup(MOCK_USERS, id).user_id
             /\ Lookup(MOCK_USERS', id).created_at = Lookup(MOCK_USERS, id).created_at
        /\ \A id \in Keys(MOCK_USERS') : Lookup(MOCK_USERS', id).user_id = id
        /\ resp'.op = "update_user" => Keys(MOCK_USERS') = Keys(MOCK_USERS) ]_vars

\* A PUT whose JSON named another user_id and a created_at was accepted, and
\* the record is still the one it was.
C25_Witness ==
    /\ resp.op = "update_user"
    /\ resp.status = 200
    /\ Len(log.sent) = 1
    /\ DOMAIN log.sent[1] = {"city", "user_id", "created_at"}
    /\ log.sent[1].user_id # resp.uid
    /\ Lookup(MOCK_USERS, resp.uid).user_id = resp.uid
    /\ Lookup(MOCK_USERS, resp.uid).created_at # log.sent[1].created_at
    /\ Lookup(MOCK_USERS, resp.uid).city = log.sent[1].city
====
